---- MODULE Spec2Model ----
(***************************************************************************)
(* A model of work_issue_1.py: the Telegraph article builder.              *)
(*                                                                         *)
(*   get_tag_position          the position encoder (a pure function)      *)
(*   convert_blockquote        the one tag converter of the file           *)
(*   TelegraphArticleBuilder   build and _convert                          *)
(*   PublishingError, ...      the exception classes                       *)
(*                                                                         *)
(* Python values are modelled as follows.  A str that the code formats or  *)
(* compares (a position key) is a sequence of code points, so that str,    *)
(* rjust, concatenation and the ordering of strings are computed and not   *)
(* assumed.  A str that the code only copies (a text node, an attribute    *)
(* value, a title) is a TLA+ string.  A value that may be None is None or  *)
(* Val(v).  A dict is a function; the code reads the dicts of this file    *)
(* only through sorted key lists, so insertion order is not kept.          *)
(* A call either returns a value or raises: Return(v) / Raise(cls).        *)
(***************************************************************************)
EXTENDS Integers, Sequences, FiniteSets, TLC

VARIABLES
    pc,              \* "start", or the name of the call that has been made
    args,            \* get_tag_position: the two argument triples of the calls
    keys,            \* get_tag_position: the two keys returned
    soup,            \* build: what the parsed source document holds
    body,            \* _convert / convert_blockquote: the parsed body
    tag_converters,  \* build / _convert: the list of converters
    stubs,           \* what each caller-supplied converter returns
    result,          \* the outcome of the call made
    invoked          \* the converters called so far, in call order

vars == <<pc, args, keys, soup, body, tag_converters, stubs, result, invoked>>

-----------------------------------------------------------------------------
(* Python values *)

None == [isNone |-> TRUE]

Val(v) == [isNone |-> FALSE, val |-> v]

Return(v) == [kind |-> "return", value |-> v]

Raise(cls, msg) == [kind |-> "raise", exc |-> cls, msg |-> msg]

NoCall == [kind |-> "none"]

-----------------------------------------------------------------------------
(* str, str.rjust and the ordering of str *)

RECURSIVE Digits(_)
Digits(n) ==
    IF n < 10 THEN <<48 + n>> ELSE Digits(n \div 10) \o <<48 + (n % 10)>>

\* str(x) for x an int or None
str(x) ==
    IF x = None THEN <<78, 111, 110, 101>>
    ELSE IF x.val < 0 THEN <<45>> \o Digits(0 - x.val)
    ELSE Digits(x.val)

\* s.ljust(width, fill): the padding on the wrong side
ljust(s, width, fill) ==
    IF Len(s) >= width THEN s
    ELSE s \o [i \in 1..(width - Len(s)) |-> fill]

\* s.rjust(width, fill)
rjust(s, width, fill) ==
    IF Len(s) >= width THEN s
    ELSE [i \in 1..(width - Len(s)) |-> fill] \o s

\* a < b for two str: by code point, a proper prefix first
RECURSIVE StrLess(_, _)
StrLess(a, b) ==
    IF b = <<>> THEN FALSE
    ELSE IF a = <<>> THEN TRUE
    ELSE IF Head(a) # Head(b) THEN Head(a) < Head(b)
    ELSE StrLess(Tail(a), Tail(b))

-----------------------------------------------------------------------------
(* get_tag_position *)

LineWidth == 7

PositionWidth == 5

SequenceWidth == 2

DefaultSequence == 1

get_tag_position_ljust(line, position, sequence) ==
    LET seq == IF sequence = None THEN Val(0) ELSE sequence
    IN  ljust(str(line), LineWidth, 48)
            \o ljust(str(position), PositionWidth, 48)
            \o ljust(str(seq), SequenceWidth, 48)

get_tag_position(line, position, sequence) ==
    LET seq == IF sequence = None THEN Val(0) ELSE sequence
    IN  rjust(str(line), LineWidth, 48)
            \o rjust(str(position), PositionWidth, 48)
            \o rjust(str(seq), SequenceWidth, 48)

-----------------------------------------------------------------------------
(* The parsed document: tags and text nodes (bs4.Tag, bs4.NavigableString) *)

\* a dict: a function from its keys to its values
EmptyDict == <<>>

Dict1(k, v) == [x \in {k} |-> v]

\* d.update({k: v})
Update(d, k, v) == [x \in (DOMAIN d) \cup {k} |-> IF x = k THEN v ELSE d[x]]

Text(s) == [kind |-> "text", text |-> s]

Tag(name, attrs, contents, line, pos) ==
    [kind |-> "tag", name |-> name, attrs |-> attrs, contents |-> contents,
     sourceline |-> line, sourcepos |-> pos]

\* BeautifulSoup(features='html.parser').new_tag(name): no attributes, no
\* contents, no source position
new_tag(name) == Tag(name, EmptyDict, <<>>, None, None)

\* BeautifulSoup("", "html.parser") with the given children
Document(contents) == Tag("[document]", EmptyDict, contents, None, None)

\* Tag.string: the single text child, or the .string of the single child
\* tag; None when the tag has no child or more than one
RECURSIVE string(_)
string(tag) ==
    IF Len(tag.contents) # 1 THEN None
    ELSE IF tag.contents[1].kind = "text" THEN Val(tag.contents[1].text)
    ELSE string(tag.contents[1])

\* the tags below a node, in document order
RECURSIVE descendants(_)
descendants(contents) ==
    IF contents = <<>> THEN <<>>
    ELSE LET c == Head(contents)
         IN  (IF c.kind = "tag" THEN <<c>> \o descendants(c.contents) ELSE <<>>)
                 \o descendants(Tail(contents))

\* find_all that matches only tags that still carry a class attribute
find_all_with_class(tag, name) ==
    LET all == descendants(tag.contents)
        hit == {i \in 1..Len(all) :
                   all[i].name = name /\ "class" \in DOMAIN all[i].attrs}
        RECURSIVE pick(_)
        pick(i) == IF i > Len(all) THEN <<>>
                   ELSE (IF i \in hit THEN <<all[i]>> ELSE <<>>) \o pick(i + 1)
    IN  pick(1)

\* tag.find_all(name)
find_all(tag, name) ==
    LET all == descendants(tag.contents)
        hit == {i \in 1..Len(all) : all[i].name = name}
        RECURSIVE pick(_)
        pick(i) == IF i > Len(all) THEN <<>>
                   ELSE (IF i \in hit THEN <<all[i]>> ELSE <<>>) \o pick(i + 1)
    IN  pick(1)

-----------------------------------------------------------------------------
(* convert_blockquote *)

DisallowedAttrs == {"class"}

\* {key: value for key, value in attrs.items() if key not in ["class"]}
filter_attrs(attrs) == [k \in (DOMAIN attrs) \ DisallowedAttrs |-> attrs[k]]

\* new_tag.string = value: Tag.string's setter clears the tag and appends
\* value.__class__(value); for None that is NoneType(None), a TypeError
set_string(tag, value) ==
    IF value = None THEN Raise("TypeError", <<"string", None>>)
    ELSE Return([tag EXCEPT !.contents = <<Text(value.val)>>])

\* lines 118-121: the new tag, `made`, gets its own attributes filtered and is
\* entered under the position key of the source tag
keyed(tag, made) ==
    IF made.kind = "raise" THEN made
    ELSE Return([key |-> get_tag_position(tag.sourceline, tag.sourcepos,
                                          Val(DefaultSequence)),
                 tag |-> [made.value EXCEPT
                              !.attrs = filter_attrs(made.value.attrs)]])

\* one pass of the loop body, lines 115-121
convert_one(tag) == keyed(tag, set_string(new_tag("blockquote"), string(tag)))

\* the loop of lines 114-121; `one` is the outcome of the pass for Head(tags)
RECURSIVE convert_loop(_, _)
RECURSIVE convert_next(_, _, _)
convert_next(tags, new_tags, one) ==
    IF one.kind = "raise" THEN one
    ELSE convert_loop(Tail(tags), Update(new_tags, one.value.key, one.value.tag))

convert_loop(tags, new_tags) ==
    IF tags = <<>> THEN Return(new_tags)
    ELSE convert_next(tags, new_tags, convert_one(Head(tags)))

\* line 123: return new_tags if len(new_tags) > 0 else None
none_if_empty(done) ==
    IF done.kind = "raise" THEN done
    ELSE IF Cardinality(DOMAIN done.value) > 0 THEN Return(Val(done.value))
    ELSE Return(None)

convert_blockquote(source_tag) ==
    none_if_empty(convert_loop(find_all(source_tag, "blockquote"), EmptyDict))

-----------------------------------------------------------------------------
(* The exception classes *)

\* class -> its base class
Bases ==
    [c \in {"PublishingError", "ConvertTagError", "HTMLParseError",
            "TypeError", "AttributeError"} |->
        IF c = "ConvertTagError" THEN "PublishingError" ELSE "Exception"]

\* issubclass(cls, base): what an `except base` clause catches
RECURSIVE issubclass(_, _)
issubclass(cls, base) ==
    \/ cls = base
    \/ /\ cls \in DOMAIN Bases
       /\ issubclass(Bases[cls], base)

-----------------------------------------------------------------------------
(* TelegraphArticleBuilder._convert *)

\* parser_func(body): convert_blockquote, or a converter the caller supplies,
\* which returns what `stubs` says
call_converter(parser_func, source) ==
    IF parser_func = "convert_blockquote" THEN convert_blockquote(source)
    ELSE stubs[parser_func]

\* bool(x) of a converter's return value: None and {} are false
truthy(x) == x # None /\ DOMAIN x.val # {}

\* a union in which the first entry of a key is kept
dict_or_first(a, b) ==
    [k \in (DOMAIN a) \cup (DOMAIN b) |-> IF k \in DOMAIN a THEN a[k] ELSE b[k]]

\* a | b: b's entry wins on a common key
dict_or(a, b) ==
    [k \in (DOMAIN a) \cup (DOMAIN b) |-> IF k \in DOMAIN b THEN b[k] ELSE a[k]]

\* the keys in descending str order
RECURSIVE sorted_keys_reverse(_)
sorted_keys_reverse(ks) ==
    IF ks = {} THEN <<>>
    ELSE LET most == CHOOSE k \in ks : \A o \in ks \ {k} : StrLess(o, k)
         IN  <<most>> \o sorted_keys_reverse(ks \ {most})

\* list(d) followed by list.sort(): the keys in ascending str order
RECURSIVE sorted_keys(_)
sorted_keys(ks) ==
    IF ks = {} THEN <<>>
    ELSE LET least == CHOOSE k \in ks : \A o \in ks \ {k} : StrLess(k, o)
         IN  <<least>> \o sorted_keys(ks \ {least})

\* the loop of lines 80-82; `called` collects the converters called, `got` is
\* the outcome of the call of Head(converters)
RECURSIVE merge_loop(_, _, _, _)
RECURSIVE merge_next(_, _, _, _, _)
RECURSIVE merge_next_assign(_, _, _, _, _)

\* the loop step without its `if`: an absent contribution replaces the mapping
merge_next_assign(source, converters, tags_with_position, called, got) ==
    IF got.kind = "raise" THEN [out |-> got, invoked |-> called]
    ELSE IF truthy(got.value)
    THEN merge_loop(source, Tail(converters),
                    dict_or(tags_with_position, got.value.val), called)
    ELSE merge_loop(source, Tail(converters), EmptyDict, called)

merge_next(source, converters, tags_with_position, called, got) ==
    IF got.kind = "raise" THEN [out |-> got, invoked |-> called]
    ELSE IF truthy(got.value)
    THEN merge_loop(source, Tail(converters),
                    dict_or(tags_with_position, got.value.val), called)
    ELSE merge_loop(source, Tail(converters), tags_with_position, called)

merge_loop(source, converters, tags_with_position, called) ==
    IF converters = <<>>
    THEN [out |-> Return(tags_with_position), invoked |-> called]
    ELSE merge_next(source, converters, tags_with_position,
                    Append(called, Head(converters)),
                    call_converter(Head(converters), source))

\* lines 83-87: sort the keys, append each tag to a new document
assemble(tags_with_position) ==
    LET tags_positions == sorted_keys(DOMAIN tags_with_position)
    IN  Document([i \in 1..Len(tags_positions) |->
                      tags_with_position[tags_positions[i]]])

\* _convert after its loop: an error of a converter goes on to the caller
assembled(merged) ==
    IF merged.out.kind = "raise" THEN merged
    ELSE [out |-> Return(assemble(merged.out.value)), invoked |-> merged.invoked]

convert_run(source, converters) ==
    assembled(merge_loop(source, converters, EmptyDict, <<>>))

_convert(source, converters) == convert_run(source, converters).out

-----------------------------------------------------------------------------
(* TelegraphArticleBuilder.build *)

\* TelegraphPage.__init__
TelegraphPage(title, html) ==
    [title |-> title, html |-> html, url |-> None, path |-> None]

HTMLParseError(label, detail) == Raise("HTMLParseError", <<label, detail>>)

\* soup.find("meta", {"property": "og:title"}).get("content", None): the call
\* of .get on None is an AttributeError, which `except Exception` catches
get_title(doc) ==
    IF doc.title_meta = None
    THEN IF issubclass("AttributeError", "Exception")
         THEN HTMLParseError("title", None)
         ELSE Raise("AttributeError", <<"get", None>>)
    ELSE IF "content" \in DOMAIN doc.title_meta.val
    THEN Return(Val(doc.title_meta.val["content"]))
    ELSE Return(None)

\* line 72, `converted` being the outcome of line 71
page_of(title, converted) ==
    IF converted.out.kind = "raise" THEN converted
    ELSE [out |-> Return(TelegraphPage(title.value, converted.out.value)),
          invoked |-> converted.invoked]

\* lines 64-72, `title` being the outcome of the title extraction
build_body(doc, converters, title) ==
    IF title.kind = "raise" THEN [out |-> title, invoked |-> <<>>]
    ELSE IF doc.body = None
    THEN [out |-> HTMLParseError("body", None), invoked |-> <<>>]
    ELSE page_of(title, convert_run(doc.body.val, converters))

build_run(doc, converters) ==
    IF doc.error_message # None
    THEN [out |-> HTMLParseError("service_msg_error", string(doc.error_message.val)),
          invoked |-> <<>>]
    ELSE IF doc.restricted_tag # None
    THEN [out |-> HTMLParseError("article_layer_placeholder__text",
                                 string(doc.restricted_tag.val)),
          invoked |-> <<>>]
    ELSE build_body(doc, converters, get_title(doc))

-----------------------------------------------------------------------------
(* Calls of get_tag_position on two argument triples *)

MaxLine == 2

MaxPosition == 1

MaxSequence == 1

RECURSIVE Pow10(_)
Pow10(w) == IF w = 0 THEN 1 ELSE 10 * Pow10(w - 1)

\* small values, values with more digits, the largest value of each field and,
\* for the line, the first value that no longer fits its field
KeyLines == (0..MaxLine) \cup {10, Pow10(LineWidth) - 1, Pow10(LineWidth)}

KeyPositions == (0..MaxPosition) \cup {10, Pow10(PositionWidth) - 1}

KeySequences ==
    {None} \cup {Val(n) : n \in (0..MaxSequence) \cup {10, Pow10(SequenceWidth) - 1}}

KeyArgs ==
    {[line |-> Val(l), position |-> Val(p), sequence |-> q] :
        l \in KeyLines, p \in KeyPositions, q \in KeySequences}

EmptySoup ==
    [error_message |-> None, restricted_tag |-> None, title_meta |-> None,
     body |-> None]

InitKey ==
    /\ pc = "start"
    /\ args \in KeyArgs \X KeyArgs
    /\ keys = <<>>
    /\ soup = EmptySoup
    /\ body = Document(<<>>)
    /\ tag_converters = <<>>
    /\ stubs = EmptyDict
    /\ result = NoCall
    /\ invoked = <<>>

\* get_tag_position(line, position, sequence) on both triples
GetTagPosition ==
    /\ pc = "start"
    /\ keys' = [i \in 1..2 |->
                   get_tag_position(args[i].line, args[i].position, args[i].sequence)]
    /\ pc' = "get_tag_position"
    /\ UNCHANGED <<args, soup, body, tag_converters, stubs, result, invoked>>

\* get_tag_position(line, position): sequence takes its default
GetTagPositionDefault ==
    /\ pc = "start"
    /\ args' = [i \in 1..2 |-> [args[i] EXCEPT !.sequence = Val(DefaultSequence)]]
    /\ keys' = [i \in 1..2 |->
                   get_tag_position(args[i].line, args[i].position,
                                    Val(DefaultSequence))]
    /\ pc' = "get_tag_position"
    /\ UNCHANGED <<soup, body, tag_converters, stubs, result, invoked>>

NextKey == GetTagPosition \/ GetTagPositionDefault

SpecKey == InitKey /\ [][NextKey]_vars

\* the claim's range: 0 <= line < 10^7, 0 <= position < 10^5, 0 <= sequence < 10^2
InRange(t) ==
    /\ t.sequence # None
    /\ 0 <= t.line.val /\ t.line.val < Pow10(LineWidth)
    /\ 0 <= t.position.val /\ t.position.val < Pow10(PositionWidth)
    /\ 0 <= t.sequence.val /\ t.sequence.val < Pow10(SequenceWidth)

\* (l1, p1, s1) < (l2, p2, s2), lexicographically on the numbers
TripleLess(a, b) ==
    \/ a.line.val < b.line.val
    \/ /\ a.line.val = b.line.val
       /\ \/ a.position.val < b.position.val
          \/ /\ a.position.val = b.position.val
             /\ a.sequence.val < b.sequence.val

\* C6: for two in-range triples, the keys get_tag_position returns compare as
\* str exactly as the triples compare as numbers (less, equal or greater), so
\* the function is order-preserving and injective on the range.
C6_KeyOrder ==
    (pc = "get_tag_position" /\ InRange(args[1]) /\ InRange(args[2])) =>
        /\ StrLess(keys[1], keys[2]) <=> TripleLess(args[1], args[2])
        /\ StrLess(keys[2], keys[1]) <=> TripleLess(args[2], args[1])
        /\ (keys[1] = keys[2]) <=> (args[1] = args[2])
        /\ Len(keys[1]) = LineWidth + PositionWidth + SequenceWidth

\* C6 witness: two in-range triples whose lines have different numbers of
\* digits, a larger position on the smaller line, and the keys in line order
C6_Witness ==
    /\ pc = "get_tag_position" /\ InRange(args[1]) /\ InRange(args[2])
    /\ args[1].line.val = 2 /\ args[2].line.val = 10
    /\ args[1].position.val > args[2].position.val
    /\ StrLess(keys[1], keys[2])

-----------------------------------------------------------------------------
(* Source bodies, as html.parser builds them *)

MaxTags == 2

Shapes ==
    {"class", "id_class", "plain", "mixed", "only_child", "empty", "p", "in_div"}

\* a top-level tag of the body that starts at (line l, column p); the parser
\* gives every tag the line and column where it starts, so a nested tag sits
\* to the right of its parent on the same line
MakeTag(shape, l, p) ==
    LET cls == Dict1("class", "article_decoration_first")
        strong == Tag("strong", Dict1("class", ""), <<Text("X")>>, Val(l), Val(p + 12))
    IN  CASE shape = "class" ->
                Tag("blockquote", cls, <<Text("q")>>, Val(l), Val(p))
          [] shape = "id_class" ->
                Tag("blockquote", Update(cls, "id", "q1"), <<Text("q")>>, Val(l), Val(p))
          [] shape = "plain" ->
                Tag("blockquote", EmptyDict, <<Text("r")>>, Val(l), Val(p))
          [] shape = "mixed" ->
                Tag("blockquote", cls, <<Text("<<"), strong, Text("!")>>, Val(l), Val(p))
          [] shape = "only_child" ->
                Tag("blockquote", cls, <<strong>>, Val(l), Val(p))
          [] shape = "empty" ->
                Tag("blockquote", cls, <<>>, Val(l), Val(p))
          [] shape = "p" ->
                Tag("p", EmptyDict, <<Text("t")>>, Val(l), Val(p))
          [] shape = "in_div" ->
                Tag("div", EmptyDict,
                    <<Tag("blockquote", cls, <<Text("d")>>, Val(l), Val(p + 5))>>,
                    Val(l), Val(p))

Layouts == {"lines", "one_line", "late"}

\* where the i-th top-level tag starts: one tag per line, all tags on line 1,
\* or one tag per line from line 9 on (so that line numbers gain a digit)
Place(layout, i) ==
    CASE layout = "lines" -> [line |-> i, pos |-> 0]
      [] layout = "one_line" -> [line |-> 1, pos |-> 40 * (i - 1)]
      [] layout = "late" -> [line |-> 8 + i, pos |-> 2]

ShapeSeqs(n) == UNION {[1..k -> Shapes] : k \in 0..n}

MakeBody(shapes, layout) ==
    Document([i \in 1..Len(shapes) |->
                 MakeTag(shapes[i], Place(layout, i).line, Place(layout, i).pos)])

Bodies(n) == {MakeBody(sh, la) : sh \in ShapeSeqs(n), la \in Layouts}

-----------------------------------------------------------------------------
(* Calls of convert_blockquote: directly, through _convert as the tests of   *)
(* the file call it, and again on the document _convert returned             *)

InitBlockquote ==
    /\ pc = "start"
    /\ args = <<>>
    /\ keys = <<>>
    /\ soup = EmptySoup
    /\ body \in Bodies(MaxTags)
    /\ tag_converters = <<"convert_blockquote">>
    /\ stubs = EmptyDict
    /\ result = NoCall
    /\ invoked = <<>>

\* convert_blockquote(body)
ConvertBlockquote ==
    /\ pc = "start"
    /\ result' = convert_blockquote(body)
    /\ pc' = "convert_blockquote"
    /\ UNCHANGED <<args, keys, soup, body, tag_converters, stubs, invoked>>

\* TelegraphArticleBuilder._convert(body, tag_converters)
Convert ==
    /\ pc = "start"
    /\ LET run == convert_run(body, tag_converters)
       IN  result' = run.out /\ invoked' = run.invoked
    /\ pc' = "_convert"
    /\ UNCHANGED <<args, keys, soup, body, tag_converters, stubs>>

\* convert_blockquote(converted), converted being what _convert returned
Reconvert ==
    /\ pc = "_convert"
    /\ result.kind = "return"
    /\ body' = result.value
    /\ result' = convert_blockquote(result.value)
    /\ pc' = "reconvert"
    /\ UNCHANGED <<args, keys, soup, tag_converters, stubs, invoked>>

NextBlockquote == ConvertBlockquote \/ Convert \/ Reconvert

SpecBlockquote == InitBlockquote /\ [][NextBlockquote]_vars

\* what Tag.__eq__ compares (the tests' `result == BeautifulSoup(...)`): the
\* name, the attributes and the contents, not the source position
RECURSIVE markup(_)
markup(node) ==
    IF node.kind = "text" THEN node
    ELSE [kind |-> "tag", name |-> node.name, attrs |-> node.attrs,
          contents |-> [i \in 1..Len(node.contents) |-> markup(node.contents[i])]]

\* the children of a source blockquote as the tests expect them in the result:
\* text as it is, a nested tag with its disallowed attributes removed
stripped(contents) ==
    [i \in 1..Len(contents) |->
        IF contents[i].kind = "text" THEN contents[i]
        ELSE [markup(contents[i]) EXCEPT !.attrs = filter_attrs(contents[i].attrs)]]

\* a mix of text and nested tags
HasMix(tag) ==
    /\ \E i \in 1..Len(tag.contents) : tag.contents[i].kind = "tag"
    /\ \E i \in 1..Len(tag.contents) : tag.contents[i].kind = "text"

KeyOf(tag) == get_tag_position(tag.sourceline, tag.sourcepos, Val(DefaultSequence))

\* C7: every blockquote of the source body is emitted, under its position key,
\* as a blockquote whose attributes are the source tag's attributes without
\* `class` and with all others retained; one that carries only `class` and a
\* single text comes out with no attributes and the same text.
C7_AttrsFiltered ==
    (pc = "convert_blockquote" /\ result.kind = "return") =>
        \A i \in 1..Len(find_all(body, "blockquote")) :
            LET tag == find_all(body, "blockquote")[i]
            IN  /\ result.value # None
                /\ KeyOf(tag) \in DOMAIN result.value.val
                /\ LET new == result.value.val[KeyOf(tag)]
                   IN  /\ new.name = "blockquote"
                       /\ new.attrs = filter_attrs(tag.attrs)
                       /\ (DOMAIN tag.attrs = {"class"} /\ string(tag) # None) =>
                              /\ new.attrs = EmptyDict
                              /\ new.contents = <<Text(string(tag).val)>>

\* the part of C7 that the code does satisfy: no emitted tag carries `class`,
\* and a blockquote with only `class` and a single text keeps its text
C7_ClassRemoved ==
    (pc = "convert_blockquote" /\ result.kind = "return") =>
        \A i \in 1..Len(find_all(body, "blockquote")) :
            LET tag == find_all(body, "blockquote")[i]
                new == result.value.val[KeyOf(tag)]
            IN  /\ "class" \notin DOMAIN new.attrs
                /\ new.contents = <<Text(string(tag).val)>>

\* C8: a source blockquote with a mix of text and nested tags comes out of _convert (with
\* convert_blockquote) as a blockquote with the same child sequence: the texts
\* in order and each nested tag with its own attributes stripped.
C8_ChildrenKept ==
    pc = "_convert" =>
        \A i \in 1..Len(find_all(body, "blockquote")) :
            LET tag == find_all(body, "blockquote")[i]
            IN  HasMix(tag) =>
                    /\ result.kind = "return"
                    /\ \E j \in 1..Len(result.value.contents) :
                           /\ result.value.contents[j].name = "blockquote"
                           /\ markup(result.value.contents[j]).contents
                                  = stripped(tag.contents)

\* C10 as claimed: convert_blockquote on the document that _convert (with
\* convert_blockquote) returned contributes nothing.
C10_Idempotent ==
    pc = "reconvert" => result = Return(None)

\* C10 amended: on the document that _convert returned, convert_blockquote
\* contributes nothing only when that document has no blockquote; when it has
\* one or more it returns a non-empty mapping of blockquotes again.
C10_ReconvertsBlockquotes ==
    pc = "reconvert" =>
        /\ result.kind = "return"
        /\ (result.value = None) <=>
               ~(\E i \in 1..Len(body.contents) : body.contents[i].name = "blockquote")
        /\ result.value # None =>
               /\ DOMAIN result.value.val # {}
               /\ \A k \in DOMAIN result.value.val :
                      \E i \in 1..Len(body.contents) :
                          markup(result.value.val[k]) = markup(body.contents[i])

\* C10 witness: a converted document with two blockquotes was converted again
\* and the converter returned a mapping
C10_Witness ==
    /\ pc = "reconvert"
    /\ Len(body.contents) = 2
    /\ \A i \in 1..2 : body.contents[i].name = "blockquote"
    /\ result.kind = "return"
    /\ result.value # None

-----------------------------------------------------------------------------
(* Calls of _convert with lists of converters *)

MaxConverters == 3

Converters == {"convert_blockquote", "stubA", "stubB"}

Stubs == {"stubA", "stubB"}

\* where the tags that the caller-supplied converters convert start: T1 at
\* line 2, column 5; T2 at line 5, column 1; T0 at line 1, column 0, where the
\* first blockquote of a one-tag-per-line body starts too
StubPlaces ==
    <<[line |-> 2, pos |-> 5, text |-> "T1"],
      [line |-> 5, pos |-> 1, text |-> "T2"],
      [line |-> 1, pos |-> 0, text |-> "T0"]>>

StubKey(i) ==
    get_tag_position(Val(StubPlaces[i].line), Val(StubPlaces[i].pos),
                     Val(DefaultSequence))

StubTag(stub, i) ==
    Tag(IF stub = "stubA" THEN "p" ELSE "figure", EmptyDict,
        <<Text(StubPlaces[i].text)>>, None, None)

\* what a caller-supplied converter may return: None, an empty mapping, or a
\* mapping of one or two of its tags by position key
StubReturns(stub) ==
    {Return(None), Return(Val(EmptyDict))} \cup
    {Return(Val([k \in {StubKey(i) : i \in I} |->
                    StubTag(stub, CHOOSE i \in I : StubKey(i) = k)])) :
        I \in {J \in SUBSET (1..Len(StubPlaces)) : Cardinality(J) \in 1..2}}

ConvertBodies ==
    {MakeBody(<<>>, "lines"), MakeBody(<<"class">>, "lines"),
     MakeBody(<<"p", "plain">>, "late"), MakeBody(<<"empty">>, "lines")}

InitConvert ==
    /\ stubs \in {[st \in Stubs |-> IF st = "stubA" THEN a ELSE b] :
                      a \in StubReturns("stubA"), b \in StubReturns("stubB")}
    /\ body \in ConvertBodies
    /\ tag_converters \in UNION {[1..n -> Converters] : n \in 0..MaxConverters}
    /\ pc = "start"
    /\ args = <<>>
    /\ keys = <<>>
    /\ soup = EmptySoup
    /\ result = NoCall
    /\ invoked = <<>>

NextConvert == Convert

SpecConvert == InitConvert /\ [][NextConvert]_vars

\* what the i-th converter of the list returns on the body
Returned(i) == call_converter(tag_converters[i], body)

AllReturn == \A i \in 1..Len(tag_converters) : Returned(i).kind = "return"

\* the keys of the i-th converter's return value
KeysOf(i) ==
    IF Returned(i).kind = "return" /\ Returned(i).value # None
    THEN DOMAIN Returned(i).value.val ELSE {}

AllKeys == UNION {KeysOf(i) : i \in 1..Len(tag_converters)}

KeysDistinct ==
    \A i, j \in 1..Len(tag_converters) : i # j => KeysOf(i) \cap KeysOf(j) = {}

\* the place a key has among all keys in ascending str order
Rank(k) == 1 + Cardinality({o \in AllKeys : StrLess(o, k)})

\* the last converter of the list that returned key k
LastWith(k) ==
    CHOOSE j \in 1..Len(tag_converters) :
        /\ k \in KeysOf(j)
        /\ \A l \in 1..Len(tag_converters) : k \in KeysOf(l) => l <= j

Permuted(f) == [i \in 1..Len(tag_converters) |-> tag_converters[f[i]]]

\* the list without its i-th converter
Without(i) ==
    [j \in 1..(Len(tag_converters) - 1) |->
        IF j < i THEN tag_converters[j] ELSE tag_converters[j + 1]]

\* C1: when the converters return pairwise distinct keys, the children of the
\* document _convert returns are exactly the returned tags, each at the place
\* of its key in strictly ascending key order, and every permutation of the
\* converter list gives the same document.
C1_SortedUnion ==
    (pc = "_convert" /\ AllReturn /\ KeysDistinct) =>
        /\ result.kind = "return"
        /\ Len(result.value.contents) = Cardinality(AllKeys)
        /\ \A i \in 1..Len(tag_converters) : \A k \in KeysOf(i) :
               result.value.contents[Rank(k)] = Returned(i).value.val[k]
        /\ \A f \in Permutations(1..Len(tag_converters)) :
               _convert(body, Permuted(f)) = result

\* C1 witness: T2 (line 5, column 1) was returned by a converter called before
\* the one that returned T1 (line 2, column 5), a third converter returned a
\* blockquote of line 10, and the document holds T1, T2, blockquote in that order
C1_Witness ==
    /\ pc = "_convert" /\ AllReturn /\ KeysDistinct
    /\ Len(tag_converters) = 3
    /\ KeysOf(1) = {StubKey(2)}
    /\ KeysOf(2) = {StubKey(1)}
    /\ Len(result.value.contents) = 3
    /\ result.value.contents[1].contents = <<Text("T1")>>
    /\ result.value.contents[2].contents = <<Text("T2")>>
    /\ result.value.contents[3].name = "blockquote"

\* C2: for a key that two or more converters of the list return, the document
\* holds one tag, the one returned by the converter that comes last in the
\* list; an earlier converter's different tag for that key is not in it.
C2_LastWins ==
    (pc = "_convert" /\ AllReturn) =>
        /\ result.kind = "return"
        /\ Len(result.value.contents) = Cardinality(AllKeys)
        /\ \A k \in AllKeys :
               LET winner == Returned(LastWith(k)).value.val[k]
               IN  /\ result.value.contents[Rank(k)] = winner
                   /\ \A i \in 1..Len(tag_converters) :
                          (k \in KeysOf(i) /\ Returned(i).value.val[k] # winner) =>
                              \A c \in 1..Len(result.value.contents) :
                                  result.value.contents[c] # Returned(i).value.val[k]

\* C2 witness: two different converters returned different tags under one key
C2_Witness ==
    /\ pc = "_convert" /\ AllReturn
    /\ \E i, j \in 1..Len(tag_converters) : \E k \in KeysOf(i) \cap KeysOf(j) :
           /\ i < j
           /\ Returned(i).value.val[k] # Returned(j).value.val[k]
           /\ result.value.contents[Rank(k)] = Returned(j).value.val[k]

\* C9: convert_blockquote returns None for a body without blockquotes; a
\* converter that returns None (or an empty mapping) does not make _convert
\* fail, and _convert gives what it gives for the list without that converter;
\* with only such converters the document has no children.
C9_EmptyContribution ==
    pc = "_convert" =>
        /\ \A i \in 1..Len(tag_converters) :
               /\ (tag_converters[i] = "convert_blockquote"
                       /\ find_all(body, "blockquote") = <<>>) =>
                      Returned(i) = Return(None)
               /\ (Returned(i).kind = "return" /\ ~truthy(Returned(i).value)) =>
                      _convert(body, Without(i)) = result
        /\ AllReturn => result.kind = "return"
        /\ (\A i \in 1..Len(tag_converters) :
                Returned(i).kind = "return" /\ ~truthy(Returned(i).value)) =>
               result = Return(Document(<<>>))

\* C9 witness: a converter that returned None was called between two that
\* returned tags, and the document holds both tags
C9_Witness ==
    /\ pc = "_convert"
    /\ Len(tag_converters) = 3
    /\ KeysOf(1) # {}
    /\ Returned(2) = Return(None)
    /\ KeysOf(3) # {} /\ KeysOf(3) \cap KeysOf(1) = {}
    /\ result.kind = "return"
    /\ Len(result.value.contents) >= 2

-----------------------------------------------------------------------------
(* Calls of build *)

\* a marker div as soup.find returns it
Marker(contents) == Tag("div", EmptyDict, contents, Val(1), Val(0))

\* soup.find("div", class_='service_msg_error'): absent, with one text, or
\* with no text (its .string is then None)
ErrorMessages == {None, Val(Marker(<<Text("error")>>)), Val(Marker(<<>>))}

\* soup.find("div", class_="article_layer_placeholder__text")
RestrictedTags == {None, Val(Marker(<<Text("restricted")>>))}

\* the attributes of soup.find("meta", {"property": "og:title"}): no such tag,
\* one with a content attribute, one without
TitleMetas ==
    {None,
     Val(Update(Dict1("property", "og:title"), "content", "Title")),
     Val(Dict1("property", "og:title"))}

\* soup.body: absent, or the body tag with its children
BodyTags ==
    {None} \cup {Val([b EXCEPT !.name = "body"]) :
                    b \in ConvertBodies \cup {MakeBody(<<"mixed">>, "lines")}}

\* the caller-supplied converters of these calls: one that finds nothing, one
\* that returns T1, one that returns T1 and T2
BuildStubs ==
    {[st \in Stubs |-> IF st = "stubA" THEN a ELSE Return(None)] :
        a \in {Return(None),
               Return(Val(Dict1(StubKey(1), StubTag("stubA", 1)))),
               Return(Val(Update(Dict1(StubKey(1), StubTag("stubA", 1)),
                                 StubKey(2), StubTag("stubA", 2))))}}

InitBuild ==
    /\ stubs \in BuildStubs
    /\ soup \in {[error_message |-> e, restricted_tag |-> r, title_meta |-> t,
                   body |-> b] :
                      e \in ErrorMessages, r \in RestrictedTags,
                      t \in TitleMetas, b \in BodyTags}
    /\ tag_converters \in UNION {[1..n -> Converters] : n \in 0..MaxConverters}
    /\ pc = "start"
    /\ args = <<>>
    /\ keys = <<>>
    /\ body = Document(<<>>)
    /\ result = NoCall
    /\ invoked = <<>>

\* TelegraphArticleBuilder.build(source_html, tag_converters), source_html
\* being the document that parses to `soup`
Build ==
    /\ pc = "start"
    /\ LET run == build_run(soup, tag_converters)
       IN  result' = run.out /\ invoked' = run.invoked
    /\ pc' = "build"
    /\ UNCHANGED <<args, keys, soup, body, tag_converters, stubs>>

NextBuild == Build

SpecBuild == InitBuild /\ [][NextBuild]_vars

\* the structural check of build that fails first, "" when all pass
FirstFailure ==
    IF soup.error_message # None THEN "service_msg_error"
    ELSE IF soup.restricted_tag # None THEN "article_layer_placeholder__text"
    ELSE IF soup.title_meta = None THEN "title"
    ELSE IF soup.body = None THEN "body"
    ELSE ""

IsPage(r) ==
    /\ r.kind = "return"
    /\ DOMAIN r.value = {"title", "html", "url", "path"}

\* C3: build returns a Page or raises HTMLParseError and nothing else; the
\* checks are made in the order error marker, restricted marker, title, body,
\* and the first that fails decides the error; when a check fails no
\* converter is invoked and no Page is produced.
C3_PageOrParseError ==
    pc = "build" =>
        /\ IsPage(result) \/ (result.kind = "raise" /\ result.exc = "HTMLParseError")
        /\ FirstFailure # "" =>
               /\ result.kind = "raise"
               /\ result.exc = "HTMLParseError"
               /\ result.msg[1] = FirstFailure
               /\ invoked = <<>>
        /\ FirstFailure = "" => invoked = tag_converters \/ result.kind = "raise"

\* the part of C3 about the checks alone, which the code satisfies: a failing
\* check raises HTMLParseError for the first failing check and no converter is
\* invoked; with all checks passed, an outcome other than a Page is an error
\* raised by the last converter invoked
C3_ChecksInOrder ==
    pc = "build" =>
        /\ FirstFailure # "" =>
               /\ result = HTMLParseError(FirstFailure, result.msg[2])
               /\ invoked = <<>>
        /\ FirstFailure = "" =>
               \/ IsPage(result) /\ invoked = tag_converters
               \/ /\ result.kind = "raise"
                  /\ invoked # <<>>
                  /\ result = call_converter(invoked[Len(invoked)], soup.body.val)

\* C4: with the og:title meta tag absent or without a content attribute build
\* fails with HTMLParseError, so the title of a Page that build returns is
\* never None.
C4_TitleNeverNone ==
    pc = "build" =>
        /\ (soup.title_meta = None \/ "content" \notin DOMAIN soup.title_meta.val) =>
               (result.kind = "raise" /\ result.exc = "HTMLParseError")
        /\ result.kind = "return" => result.value.title # None

\* C5: HTMLParseError and ConvertTagError descend from PublishingError, so an
\* `except PublishingError` around build catches every error that build raises
\* for a failed structural check.
C5_CaughtAsPublishingError ==
    /\ issubclass("ConvertTagError", "PublishingError")
    /\ (pc = "build" /\ FirstFailure # "" /\ result.kind = "raise") =>
           issubclass(result.exc, "PublishingError")

====
